---- MODULE Spec2Model ----
(***************************************************************************)
(* A model of one trio-jsonrpc connection (JsonRpcConnection in            *)
(* trio_jsonrpc/main.py) over the in-memory transport                      *)
(* (trio_jsonrpc/transport/memory.py).                                     *)
(*                                                                         *)
(* Trio tasks are cooperative: a task runs atomically from one `await` to  *)
(* the next.  Every action below is one such run of one task.  A task that *)
(* sits at an `await` inside a cancelled scope gets trio.Cancelled there   *)
(* instead of performing the awaited operation.                            *)
(***************************************************************************)
EXTENDS Integers, Sequences, FiniteSets, TLC

\* ---------------------------------------------------------------- bounds
NumCallers == 2      \* tasks that call request() once each
NumNotifiers == 1    \* tasks that call notify() once each
MaxFrames == 2       \* frames the remote peer puts on the transport
MaxFaults == 1       \* closings of a transport end, cancellations, deadlines
MaxAccepted == 4     \* messages the serving side takes from the transport
NumTasks == 2        \* tasks that use the dispatcher directly
MaxOps == 5          \* registrations, scope entries and exits, execute() calls
MaxBufferLen == 2    \* largest request_buffer_len given to jsonrpc_server()

Callers == 1..NumCallers
Tasks == 1..NumTasks
Notifiers == 1..NumNotifiers

\* ------------------------------------------------------ program constants
CLIENT == 0
SERVER == 1
PARSE_ERROR == -32700
INTERNAL_ERROR == -32603
METHOD_NOT_FOUND == -32601
DefaultRequestBufferLen == 1 \* jsonrpc_server(..., request_buffer_len: int = 1)
InboundCapacity == 0 \* trio.open_memory_channel(0) of the inbound requests
NOT_AUTHORIZED == 1000

\* ------------------------------------------------------------ wire values
Null == -1           \* JSON null / Python None in an id position
NoCaller == Null     \* no waiter
Values == {"v1", "v2"}
NoResult == "none"
NoError == [code |-> 0, message |-> "", data |-> "none"]
Garbage == << >>     \* a frame that does not parse (b"{" in the tests)

\* The params member of a request as the codec hands it over: a list, a dict
\* (a set of name/value pairs here) or None.
NoParams == [shape |-> "none", list |-> << >>, dict |-> {}]
ListParams(items) == [shape |-> "list", list |-> items, dict |-> {}]
DictParams(pairs) == [shape |-> "dict", list |-> << >>, dict |-> pairs]

ParseErrorObj == [code |-> PARSE_ERROR, message |-> "Invalid JSON format", data |-> "none"]
NoMatchErrorObj == [code |-> INTERNAL_ERROR, message |-> "No in-flight request matches response.id", data |-> "none"]
PeerErrorObj == [code |-> METHOD_NOT_FOUND, message |-> "Method not found", data |-> "none"]
AppErrorObj == [code |-> NOT_AUTHORIZED, message |-> "Not authorized", data |-> "d1"]

RequestWithParams(id, method, params) ==
    [kind |-> "request", id |-> id, method |-> method, params |-> params,
     success |-> FALSE, result |-> NoResult, error |-> NoError]
Request(id, method) == RequestWithParams(id, method, NoParams)
Notification(method) == Request(Null, method)
ResultResponse(id, v) ==
    [kind |-> "response", id |-> id, method |-> "", params |-> NoParams,
     success |-> TRUE, result |-> v, error |-> NoError]
ErrorResponse(id, e) ==
    [kind |-> "response", id |-> id, method |-> "", params |-> NoParams,
     success |-> FALSE, result |-> NoResult, error |-> e]

VARIABLES
    peer_type,            \* JsonRpcConnection._peer_type
    request_buffer_len,   \* the argument jsonrpc_server() was called with
    next_id,              \* the id the codec gives to the next request()
    outbound_requests,    \* JsonRpcConnection._outbound_requests: id -> waiter
    callers,              \* the tasks inside request()
    notifiers,            \* the tasks inside notify()
    bg,                   \* JsonRpcConnection._background_task
    inbound_closed,       \* _inbound_requests_send has been closed
    consumer,             \* the task iterating iter_requests()
    delivered,            \* requests the consumer has been given, in order
    net_in,               \* frames sent by the peer and not yet received
    net_out,              \* messages this connection handed to the transport
    recv_state,           \* state of the receive channel of the transport
    send_state,           \* state of the send channel of the transport
    cancelled,            \* the nursery's cancel scope has been cancelled
    frames_sent,          \* number of frames the peer has sent
    faults,               \* number of closings, cancellations and deadlines so far
    log,                  \* the conditions logged so far
    call,                 \* method and params each request() is called with
    handlers,             \* Dispatch._handlers: name -> handler function
    tasks,                \* the tasks running Dispatch.handle_request
    results,              \* the pairs sent to the result channel, in order
    responded,            \* number of pairs the responder has drained
    accepted,             \* number of messages the serving side has taken
    serve_cancelled,      \* the nursery of connection_handler is cancelled
    dispatch_log,         \* handler names logged by the dispatcher
    replies,              \* the respond_with_* calls of the application
    contexts,             \* dispatch.contexts: connection id -> context object
    connection_id,        \* the ContextVar connection_id, as each task sees it
    connection_id_gen,    \* the next value of connection_id_gen
    heap,                 \* the attribute x of each context object
    scope,                \* the connection_context() each task is inside
    spawned,              \* the tasks that have been started
    events                \* what the dispatcher was asked to do, with outcomes

\* The state of the serving side: dispatcher, handler tasks and responder.
\* The state of the connection contexts.
cvars == <<contexts, connection_id, connection_id_gen, heap, scope, spawned,
           events>>

dvars == <<call, handlers, tasks, results, responded, accepted,
           serve_cancelled, dispatch_log, replies, cvars>>

vars == <<peer_type, request_buffer_len, next_id, outbound_requests, callers, notifiers, bg,
          inbound_closed, consumer, delivered, net_in, net_out, recv_state,
          send_state, cancelled, frames_sent, faults, log, dvars>>

\* ------------------------------------------------------------ task states
NoResponse ==
    [kind |-> "none", id |-> Null, method |-> "", params |-> NoParams,
     success |-> FALSE, result |-> NoResult, error |-> NoError]
IdleCaller ==
    [pc |-> "idle", id |-> Null, response |-> NoResponse, value |-> NoResult,
     error |-> NoError]
IdleBg == [pc |-> "init", running |-> FALSE, messages |-> << >>, target |-> NoCaller]

\* The messages and frames the remote peer may send.  A frame is the sequence
\* of messages the codec parses out of it; Garbage is a frame that fails to
\* parse.
PeerFrames ==
    { Garbage,
      <<ResultResponse(0, "v1")>>,
      <<ResultResponse(1, "v2")>>,
      <<ErrorResponse(0, PeerErrorObj)>>,
      <<ErrorResponse(1, AppErrorObj)>>,
      <<Request(0, "foo")>>,
      <<ResultResponse(NumCallers, "v1"), Notification("foo")>> }

\* What request() is called with: the calls of tests/test_dispatch.py and of
\* the example server.  "hello_world" has no handler.
DefaultCall == [method |-> "hello_world", params |-> NoParams]
Calls ==
    { DefaultCall,
      [method |-> "handler1", params |-> DictParams({<<"foo", "bar">>})],
      [method |-> "handler2", params |-> ListParams(<<1, 2, 3>>)],
      [method |-> "get_balance", params |-> NoParams],
      [method |-> "foo_bar", params |-> NoParams],
      [method |-> "increment", params |-> NoParams] }

\* Handler functions are known by the name they are defined under in the
\* tests and the example; "increment_2" is a second function defined as
\* `increment`, "object" is object(), which has no __name__.
NoName == ""
FnName(fn) ==
    CASE fn = "increment_2" -> "increment"
      [] fn = "object" -> NoName
      [] OTHER -> fn

\* The handlers registered with @dispatch.handler.
RegisteredHandlers == {"handler1", "handler2", "get_balance", "foo_bar", "increment"}

\* A sentinel value indicating that a connection context has not been set.
ContextNotSet == Null

\* The context objects handed to connection_context().
Objects == {"c1", "c2"}

\* A task that is inside no connection_context().
NoFrame == [id |-> ContextNotSet, context |-> "", old_value |-> ContextNotSet]

\* The module state of dispatch.py after import, seen by one running task.
ContextInit ==
    /\ contexts = [i \in {} |-> ""]
    /\ connection_id = [t \in Tasks |-> ContextNotSet]
    /\ connection_id_gen = 0
    /\ heap = [o \in Objects |-> 0]
    /\ scope = [t \in Tasks |-> NoFrame]
    /\ spawned = {1}
    /\ events = << >>

\* The dispatcher and the serving side before anything has arrived.
DispatchInit ==
    /\ ContextInit
    /\ handlers = [name \in RegisteredHandlers |-> name]
    /\ tasks = << >>
    /\ results = << >>
    /\ responded = 0
    /\ accepted = 0
    /\ serve_cancelled = FALSE
    /\ dispatch_log = {}
    /\ replies = << >>

Init ==
    /\ peer_type \in {CLIENT, SERVER}
    /\ call = [c \in Callers |-> DefaultCall]
    /\ DispatchInit
    /\ request_buffer_len = DefaultRequestBufferLen
    /\ next_id = 0
    /\ outbound_requests = [i \in {} |-> NoCaller]
    /\ callers = [c \in Callers |-> IdleCaller]
    /\ notifiers = [n \in Notifiers |-> "idle"]
    /\ bg = IdleBg
    /\ inbound_closed = FALSE
    /\ consumer = "idle"
    /\ delivered = << >>
    /\ net_in = << >>
    /\ net_out = << >>
    /\ recv_state = "open"
    /\ send_state = "open"
    /\ cancelled = FALSE
    /\ frames_sent = 0
    /\ faults = 0
    /\ log = {}

\* -------------------------------------------------------------------- role
is_server == peer_type = SERVER
is_client == peer_type = CLIENT

\* ------------------------------------------------------------- transport
\* MemoryTransport.send: what `await self._transport.send(data)` does.  The
\* channel's buffer is taken to be large enough for the run (the tests use a
\* buffer of 10), so an open channel always takes the data.
\*   "sent"   the channel took the data
\*   "closed" trio.BrokenResourceError (the peer closed its receiving end),
\*            turned into TransportClosed
\*   "error"  trio.ClosedResourceError (the local sending end is closed),
\*            which is not caught and leaves send() as it is
TransportSend ==
    CASE send_state = "open" -> "sent"
      [] send_state = "peer_closed" -> "closed"
      [] OTHER -> "error"

\* MemoryTransport.recv: what `await self._transport.recv()` does.
\*   "data"   a frame is handed over
\*   "closed" trio.EndOfChannel (the peer closed its sending end and nothing
\*            is buffered) or trio.ClosedResourceError (the local receiving
\*            end is closed), both turned into TransportClosed
\*   "block"  the task stays suspended
TransportRecv ==
    CASE recv_state = "local_closed" -> "closed"
      [] net_in # << >> -> "data"
      [] recv_state = "peer_closed" -> "closed"
      [] OTHER -> "block"

\* --------------------------------------------------- the correlation table
\* A table with one slot: every waiter is stored under the same key.
InsertPendingOneSlot(table, id, c) ==
    [i \in DOMAIN table \cup {0} |-> IF i = 0 THEN c ELSE table[i]]

\* A request() that has not stored its waiter when it sends.
InsertPendingLate(table, id, c) == table

\* self._outbound_requests[request_id] = response_send
InsertPending(table, id, c) ==
    [i \in DOMAIN table \cup {id} |-> IF i = id THEN c ELSE table[i]]

\* popitem() instead of pop(message.id): some waiter, whatever the id.
PopWaiterAny(table, id) == table[CHOOSE i \in DOMAIN table : TRUE]

\* self._outbound_requests.pop(message.id): the waiter that is returned ...
PopWaiter(table, id) == table[id]

\* A lookup that leaves the entry in the table.
PopRestKeeps(table, id) == table

\* ... and the table that is left.
PopRest(table, id) == [i \in DOMAIN table \ {id} |-> table[i]]

\* ------------------------------------------------------ _background_task
\* The body of `for message in messages`, run from the head of msgs up to the
\* next await: a request is about to be put on the inbound channel, a response
\* with a pending id is about to be handed to its waiter, a response without
\* one is logged and an error response is about to be sent.  With no message
\* left the loop goes back to recv().
BgContinue(msgs, lg) ==
    IF msgs = << >>
    THEN /\ bg' = [bg EXCEPT !.pc = "recv", !.messages = << >>, !.target = NoCaller]
         /\ log' = lg
         /\ UNCHANGED outbound_requests
    ELSE LET message == Head(msgs) IN
         IF message.kind = "request"
         THEN /\ bg' = [bg EXCEPT !.pc = "enqueue", !.messages = msgs,
                                  !.target = NoCaller]
              /\ log' = lg
              /\ UNCHANGED outbound_requests
         ELSE IF message.id \in DOMAIN outbound_requests
         THEN /\ bg' = [bg EXCEPT !.pc = "handoff", !.messages = msgs,
                                  !.target = PopWaiter(outbound_requests, message.id)]
              /\ outbound_requests' = PopRest(outbound_requests, message.id)
              /\ log' = lg
         ELSE /\ bg' = [bg EXCEPT !.pc = "err_unmatched", !.messages = msgs,
                                  !.target = NoCaller]
              /\ log' = lg \cup {"no_match"}
              /\ UNCHANGED outbound_requests

\* The task starts: it sets _bg_task_running and reaches the first recv().
BgStart ==
    /\ bg.pc = "init"
    /\ bg' = [bg EXCEPT !.pc = "recv", !.running = TRUE]
    /\ UNCHANGED <<dvars, peer_type, request_buffer_len, next_id, outbound_requests, callers, notifiers,
                   inbound_closed, consumer, delivered, net_in, net_out,
                   recv_state, send_state, cancelled, frames_sent, log,
                   faults>>

\* recv() returns a frame that parses: the for loop starts.
BgRecvMessages ==
    /\ bg.pc = "recv" /\ ~cancelled
    /\ TransportRecv = "data"
    /\ Head(net_in) # Garbage
    /\ net_in' = Tail(net_in)
    /\ BgContinue(Head(net_in), log)
    /\ UNCHANGED <<dvars, peer_type, request_buffer_len, next_id, callers, notifiers, inbound_closed,
                   consumer, delivered, net_out, recv_state, send_state,
                   cancelled, frames_sent,
                   faults>>

\* recv() returns a frame on which parse() raises a JsonRpcException: the
\* client logs, the server logs and goes on to send an error response.
BgRecvGarbage ==
    /\ bg.pc = "recv" /\ ~cancelled
    /\ TransportRecv = "data"
    /\ Head(net_in) = Garbage
    /\ net_in' = Tail(net_in)
    /\ IF is_client
       THEN /\ log' = log \cup {"client_exc"}
            /\ UNCHANGED bg
       ELSE /\ log' = log \cup {"server_exc"}
            /\ bg' = [bg EXCEPT !.pc = "err_parse"]
    /\ UNCHANGED <<dvars, peer_type, request_buffer_len, next_id, outbound_requests, callers, notifiers,
                   inbound_closed, consumer, delivered, net_out, recv_state,
                   send_state, cancelled, frames_sent,
                   faults>>

\* recv() raises TransportClosed: the inbound channel is closed and the task
\* is at the checkpoint of aclose().
BgRecvClosed ==
    /\ bg.pc = "recv" /\ ~cancelled
    /\ TransportRecv = "closed"
    /\ log' = log \cup {"recv_closed"}
    /\ inbound_closed' = TRUE
    /\ bg' = [bg EXCEPT !.pc = "aclose"]
    /\ UNCHANGED <<dvars, peer_type, request_buffer_len, next_id, outbound_requests, callers, notifiers,
                   consumer, delivered, net_in, net_out, recv_state,
                   send_state, cancelled, frames_sent,
                   faults>>

\* aclose() returns: break, and _bg_task_running is reset.
BgAcloseDone ==
    /\ bg.pc = "aclose" /\ ~cancelled
    /\ bg' = [bg EXCEPT !.pc = "done", !.running = FALSE]
    /\ UNCHANGED <<dvars, peer_type, request_buffer_len, next_id, outbound_requests, callers, notifiers,
                   inbound_closed, consumer, delivered, net_in, net_out,
                   recv_state, send_state, cancelled, frames_sent, log,
                   faults>>

\* _background_send_error(exc): respond_with_error(None, exc.get_error())
BackgroundErrorResponse(e) == ErrorResponse(Null, e)

\* request() that drops the result and returns None.
RequestOutcomeReturnsNone(c, response) ==
    [callers[c] EXCEPT !.pc = IF response.success THEN "returned" ELSE "raised",
                       !.response = response,
                       !.value = NoResult,
                       !.error = IF response.success THEN NoError ELSE response.error]

\* request() that raises the error without the data of the error object.
RequestOutcomeDropsData(c, response) ==
    [callers[c] EXCEPT !.pc = IF response.success THEN "returned" ELSE "raised",
                       !.response = response,
                       !.value = IF response.success THEN response.result ELSE NoResult,
                       !.error = IF response.success THEN NoError
                                 ELSE [response.error EXCEPT !.data = "none"]]

\* request(): what the caller gets from the response it was handed.
\* `return response.result` or `raise JsonRpcException.exc_from_error(...)`.
RequestOutcome(c, response) ==
    [callers[c] EXCEPT !.pc = IF response.success THEN "returned" ELSE "raised",
                       !.response = response,
                       !.value = IF response.success THEN response.result ELSE NoResult,
                       !.error = IF response.success THEN NoError ELSE response.error]

\* A loop that puts the request on an unbounded queue and goes on.
BgEnqueueUnbounded ==
    /\ bg.pc = "enqueue" /\ ~cancelled
    /\ delivered' = Append(delivered, Head(bg.messages))
    /\ BgContinue(Tail(bg.messages), log)
    /\ UNCHANGED <<dvars, peer_type, request_buffer_len, next_id, callers, notifiers, inbound_closed,
                   consumer, net_in, net_out, recv_state, send_state, cancelled,
                   frames_sent,
                   faults>>

\* `await self._inbound_requests_send.send(message)` on the zero-capacity
\* channel: the request passes to a consumer that is waiting in receive().
BgEnqueue ==
    /\ bg.pc = "enqueue" /\ ~cancelled
    /\ consumer = "receiving"
    /\ consumer' = "idle"
    /\ delivered' = Append(delivered, Head(bg.messages))
    /\ BgContinue(Tail(bg.messages), log)
    /\ UNCHANGED <<dvars, peer_type, request_buffer_len, next_id, callers, notifiers, inbound_closed,
                   net_in, net_out, recv_state, send_state, cancelled,
                   frames_sent,
                   faults>>

\* `await response_send.send(message)` on the zero-capacity channel of one
\* request(): the response passes to the caller once it waits in receive().
BgHandoff ==
    /\ bg.pc = "handoff" /\ ~cancelled
    /\ callers[bg.target].pc = "wait"
    /\ callers' = [callers EXCEPT ![bg.target] = RequestOutcome(bg.target, Head(bg.messages))]
    /\ BgContinue(Tail(bg.messages), log)
    /\ UNCHANGED <<dvars, peer_type, request_buffer_len, next_id, notifiers, inbound_closed, consumer,
                   delivered, net_in, net_out, recv_state, send_state,
                   cancelled, frames_sent,
                   faults>>

\* `await self._background_send_error(JsonRpcInternalError(msg))` in the
\* KeyError handler.  TransportClosed is caught in _background_send_error and
\* the for loop goes on; any other exception reaches `except Exception` of the
\* while loop, which drops the rest of the frame.
BgSendErrorUnmatched ==
    /\ bg.pc = "err_unmatched" /\ ~cancelled
    /\ CASE TransportSend = "sent" ->
              /\ net_out' = Append(net_out, BackgroundErrorResponse(NoMatchErrorObj))
              /\ BgContinue(Tail(bg.messages), log)
         [] TransportSend = "closed" ->
              /\ BgContinue(Tail(bg.messages), log \cup {"cannot_send"})
              /\ UNCHANGED net_out
         [] OTHER ->
              /\ bg' = [bg EXCEPT !.pc = "recv", !.messages = << >>]
              /\ log' = log \cup {"unhandled"}
              /\ UNCHANGED <<net_out, outbound_requests>>
    /\ UNCHANGED <<dvars, peer_type, request_buffer_len, next_id, callers, notifiers, inbound_closed,
                   consumer, delivered, net_in, recv_state, send_state,
                   cancelled, frames_sent,
                   faults>>

\* `await self._background_send_error(jre)` in the JsonRpcException handler
\* of a server.  TransportClosed is caught in _background_send_error and the
\* while loop goes on; any other exception is raised inside an except clause,
\* so no clause of the same try catches it: it leaves _background_task with
\* _bg_task_running still set, and the nursery cancels its scope.
BgSendErrorParse ==
    /\ bg.pc = "err_parse" /\ ~cancelled
    /\ CASE TransportSend = "sent" ->
              /\ net_out' = Append(net_out, BackgroundErrorResponse(ParseErrorObj))
              /\ bg' = [bg EXCEPT !.pc = "recv"]
              /\ UNCHANGED <<log, cancelled>>
         [] TransportSend = "closed" ->
              /\ bg' = [bg EXCEPT !.pc = "recv"]
              /\ log' = log \cup {"cannot_send"}
              /\ UNCHANGED <<net_out, cancelled>>
         [] OTHER ->
              /\ bg' = [bg EXCEPT !.pc = "crashed"]
              /\ cancelled' = TRUE
              /\ UNCHANGED <<net_out, log>>
    /\ UNCHANGED <<dvars, peer_type, request_buffer_len, next_id, outbound_requests, callers, notifiers,
                   inbound_closed, consumer, delivered, net_in, recv_state,
                   send_state, frames_sent,
                   faults>>

\* A loop that notices cancellation only while it waits in recv().
BgCancelledAtRecvOnly ==
    /\ bg.pc = "recv" /\ cancelled
    /\ bg' = [bg EXCEPT !.pc = "done", !.running = FALSE]
    /\ UNCHANGED <<dvars, peer_type, request_buffer_len, next_id, outbound_requests, callers, notifiers,
                   inbound_closed, consumer, delivered, net_in, net_out,
                   recv_state, send_state, cancelled, frames_sent, log,
                   faults>>

\* trio.Cancelled is raised at an await inside the try of the while loop (also
\* inside the KeyError handler, which is nested in it): `except trio.Cancelled`
\* breaks out of the loop and _bg_task_running is reset.
BgCancelled ==
    /\ bg.pc \in {"recv", "enqueue", "handoff", "err_unmatched"} /\ cancelled
    /\ bg' = [bg EXCEPT !.pc = "done", !.running = FALSE]
    /\ UNCHANGED <<dvars, peer_type, request_buffer_len, next_id, outbound_requests, callers, notifiers,
                   inbound_closed, consumer, delivered, net_in, net_out,
                   recv_state, send_state, cancelled, frames_sent, log,
                   faults>>

\* trio.Cancelled is raised at an await inside one of the except clauses of
\* the while loop (sending the parse error, closing the inbound channel): it
\* leaves _background_task with _bg_task_running still set.
BgCancelledInHandler ==
    /\ bg.pc \in {"err_parse", "aclose"} /\ cancelled
    /\ bg' = [bg EXCEPT !.pc = "cancelled"]
    /\ UNCHANGED <<dvars, peer_type, request_buffer_len, next_id, outbound_requests, callers, notifiers,
                   inbound_closed, consumer, delivered, net_in, net_out,
                   recv_state, send_state, cancelled, frames_sent, log,
                   faults>>

\* --------------------------------------------------------------- request()
\* The codec (JsonRpcPeer.request) numbers the requests of one connection
\* 0, 1, 2, ... (the first request of a connection carries "id": 0 in
\* tests/test_main.py).
AllocateId == next_id

\* request() up to `await self._transport.send(bytes_to_send)`: the id is
\* allocated, the waiter is put in the table.
RequestStart(c) ==
    /\ callers[c].pc = "idle"
    /\ next_id' = next_id + 1
    /\ outbound_requests' = InsertPending(outbound_requests, AllocateId, c)
    /\ callers' = [callers EXCEPT ![c].pc = "send", ![c].id = AllocateId]
    /\ UNCHANGED <<dvars, peer_type, request_buffer_len, notifiers, bg, inbound_closed, consumer,
                   delivered, net_in, net_out, recv_state, send_state,
                   cancelled, frames_sent, log,
                   faults>>

\* `await self._transport.send(bytes_to_send)` in request(): the caller goes
\* on to wait for its response, or send() raises and request() raises with it.
RequestSend(c) ==
    /\ callers[c].pc = "send"
    /\ CASE TransportSend = "sent" ->
              /\ net_out' = Append(net_out, RequestWithParams(callers[c].id,
                                         call[c].method, call[c].params))
              /\ callers' = [callers EXCEPT ![c].pc = "wait"]
         [] TransportSend = "closed" ->
              /\ callers' = [callers EXCEPT ![c].pc = "transport_closed"]
              /\ UNCHANGED net_out
         [] OTHER ->
              /\ callers' = [callers EXCEPT ![c].pc = "failed"]
              /\ UNCHANGED net_out
    /\ UNCHANGED <<dvars, peer_type, request_buffer_len, next_id, outbound_requests, notifiers, bg,
                   inbound_closed, consumer, delivered, net_in, recv_state,
                   send_state, cancelled, frames_sent, log,
                   faults>>

\* The caller of request() is cancelled at one of its two awaits (its own
\* deadline, as trio.move_on_after in the tests, or a cancelled scope around
\* it).  Deadlines count as faults of the run.
RequestCancelled(c) ==
    /\ faults < MaxFaults
    /\ faults' = faults + 1
    /\ callers[c].pc \in {"send", "wait"}
    /\ callers' = [callers EXCEPT ![c].pc = "cancelled"]
    /\ UNCHANGED <<dvars, peer_type, request_buffer_len, next_id, outbound_requests, notifiers, bg,
                   inbound_closed, consumer, delivered, net_in, net_out,
                   recv_state, send_state, cancelled, frames_sent, log>>

\* ---------------------------------------------------------------- notify()
\* A notification built like a request, with the next id in it.
NotifyBytesWithId(method) == Request(next_id, method)

\* self._sansio_peer.notify(method, params): a request without id.
NotifyBytes(method) == Notification(method)

\* notify(): the bytes are built and `await self._transport.send(bytes_to_send)`
\* hands them to the transport, or raises.  Nothing of the connection changes
\* before the await, so the call is one step.
Notify(n) ==
    /\ notifiers[n] = "idle"
    /\ CASE TransportSend = "sent" ->
              /\ net_out' = Append(net_out, NotifyBytes("hello_world"))
              /\ notifiers' = [notifiers EXCEPT ![n] = "returned"]
         [] TransportSend = "closed" ->
              /\ notifiers' = [notifiers EXCEPT ![n] = "transport_closed"]
              /\ UNCHANGED net_out
         [] OTHER ->
              /\ notifiers' = [notifiers EXCEPT ![n] = "failed"]
              /\ UNCHANGED net_out
    /\ UNCHANGED <<dvars, peer_type, request_buffer_len, next_id, outbound_requests, callers, bg,
                   inbound_closed, consumer, delivered, net_in, recv_state,
                   send_state, cancelled, frames_sent, log,
                   faults>>

\* ---------------------------------------------------------- iter_requests()
\* The consumer asks for the next request: `async for` calls receive() on
\* the inbound channel.
ConsumerNext ==
    /\ consumer = "idle"
    /\ consumer' = "receiving"
    /\ UNCHANGED <<dvars, peer_type, request_buffer_len, next_id, outbound_requests, callers, notifiers,
                   bg, inbound_closed, delivered, net_in, net_out, recv_state,
                   send_state, cancelled, frames_sent, log,
                   faults>>

\* receive() raises trio.EndOfChannel because the sending end is closed: the
\* `async for` of iter_requests() ends and so does the generator.
ConsumerEnd ==
    /\ consumer = "receiving"
    /\ inbound_closed
    /\ consumer' = "ended"
    /\ UNCHANGED <<dvars, peer_type, request_buffer_len, next_id, outbound_requests, callers, notifiers,
                   bg, inbound_closed, delivered, net_in, net_out, recv_state,
                   send_state, cancelled, frames_sent, log,
                   faults>>

\* The consumer runs inside the cancelled scope (the body of
\* serve_jsonrpc_memory does) and waits in receive(): trio.Cancelled is raised
\* out of iter_requests().  A consumer outside the scope never takes this step.
ConsumerCancelled ==
    /\ consumer = "receiving"
    /\ cancelled
    /\ consumer' = "cancelled"
    /\ UNCHANGED <<dvars, peer_type, request_buffer_len, next_id, outbound_requests, callers, notifiers,
                   bg, inbound_closed, delivered, net_in, net_out, recv_state,
                   send_state, cancelled, frames_sent, log,
                   faults>>

\* ------------------------------------------------------------ environment
\* The peer sends a frame.
PeerSend(frame) ==
    /\ frames_sent < MaxFrames
    /\ recv_state = "open"
    /\ net_in' = Append(net_in, frame)
    /\ frames_sent' = frames_sent + 1
    /\ UNCHANGED <<dvars, peer_type, request_buffer_len, next_id, outbound_requests, callers, notifiers,
                   bg, inbound_closed, consumer, delivered, net_out,
                   recv_state, send_state, cancelled, log,
                   faults>>

\* The peer closes its sending end: what is buffered can still be received.
PeerCloseSend ==
    /\ faults < MaxFaults
    /\ faults' = faults + 1
    /\ recv_state = "open"
    /\ recv_state' = "peer_closed"
    /\ UNCHANGED <<dvars, peer_type, request_buffer_len, next_id, outbound_requests, callers, notifiers,
                   bg, inbound_closed, consumer, delivered, net_in, net_out,
                   send_state, cancelled, frames_sent, log>>

\* The peer closes its receiving end.
PeerCloseRecv ==
    /\ faults < MaxFaults
    /\ faults' = faults + 1
    /\ send_state = "open"
    /\ send_state' = "peer_closed"
    /\ UNCHANGED <<dvars, peer_type, request_buffer_len, next_id, outbound_requests, callers, notifiers,
                   bg, inbound_closed, consumer, delivered, net_in, net_out,
                   recv_state, cancelled, frames_sent, log>>

\* The application closes the receive channel it gave to the transport.
LocalCloseRecv ==
    /\ faults < MaxFaults
    /\ faults' = faults + 1
    /\ recv_state # "local_closed"
    /\ recv_state' = "local_closed"
    /\ UNCHANGED <<dvars, peer_type, request_buffer_len, next_id, outbound_requests, callers, notifiers,
                   bg, inbound_closed, consumer, delivered, net_in, net_out,
                   send_state, cancelled, frames_sent, log>>

\* The application closes the send channel it gave to the transport.
LocalCloseSend ==
    /\ faults < MaxFaults
    /\ faults' = faults + 1
    /\ send_state # "local_closed"
    /\ send_state' = "local_closed"
    /\ UNCHANGED <<dvars, peer_type, request_buffer_len, next_id, outbound_requests, callers, notifiers,
                   bg, inbound_closed, consumer, delivered, net_in, net_out,
                   recv_state, cancelled, frames_sent, log>>

\* nursery.cancel_scope.cancel(): the scope of the background task is
\* cancelled.
Cancel ==
    /\ faults < MaxFaults
    /\ faults' = faults + 1
    /\ ~cancelled
    /\ cancelled' = TRUE
    /\ UNCHANGED <<dvars, peer_type, request_buffer_len, next_id, outbound_requests, callers, notifiers,
                   bg, inbound_closed, consumer, delivered, net_in, net_out,
                   recv_state, send_state, frames_sent, log>>

\* ------------------------------------------------------------- Dispatch
\* JsonRpcInternalError("An unhandled exception occurred.").get_error()
InternalErrorObj ==
    [code |-> INTERNAL_ERROR, message |-> "An unhandled exception occurred.",
     data |-> "none"]

\* JsonRpcMethodNotFoundError(f'Method "{method}" not found.').get_error()
MethodNotFoundObj(method) ==
    [code |-> METHOD_NOT_FOUND,
     message |-> CASE method = "hello_world" -> "Method \"hello_world\" not found."
                   [] method = "foo" -> "Method \"foo\" not found."
                   [] OTHER -> "Method not found.",
     data |-> "none"]

\* What the body of a handler may do once it runs: return a value, raise a
\* JsonRpcException or raise another exception.  get_balance raises or returns
\* depending on the connection context.
Returns(v) == [kind |-> "return", value |-> v, error |-> NoError, detail |-> ""]
RaisesJsonRpc(e) == [kind |-> "jsonrpc_exc", value |-> NoResult, error |-> e, detail |-> ""]
RaisesOther(text) == [kind |-> "exception", value |-> NoResult, error |-> NoError, detail |-> text]
NoOutcome == [kind |-> "none", value |-> NoResult, error |-> NoError, detail |-> ""]
HandlerOutcomes(name) ==
    CASE name = "handler1" -> {Returns("handled_by_handler1")}
      [] name = "handler2" -> {Returns("handled_by_handler2")}
      [] name = "get_balance" -> {RaisesJsonRpc(AppErrorObj), Returns("100")}
      [] name = "foo_bar" -> {RaisesOther("foo bar")}
      [] OTHER -> {RaisesOther("The .context property is only valid in a connection context.")}

\* The results handle_request sends: a value or a JsonRpcException.
ValueResult(v) == [is_error |-> FALSE, value |-> v, error |-> NoError]
ErrorResult(e) == [is_error |-> TRUE, value |-> NoResult, error |-> e]
NoTaskResult == [is_error |-> FALSE, value |-> NoResult, error |-> NoError]

\* A call that passes the values of a dict as positional arguments.
BuildCallPositionalOnly(params) ==
    CASE params.shape = "list" -> [args |-> params.list, kwargs |-> {}]
      [] params.shape = "dict" ->
            [args |-> [i \in 1..Cardinality(params.dict) |-> "bar"], kwargs |-> {}]
      [] OTHER -> [args |-> << >>, kwargs |-> {}]

\* handler(*params), handler(**params) or handler(): the positional and the
\* named arguments of the call.
BuildCall(params) ==
    CASE params.shape = "list" -> [args |-> params.list, kwargs |-> {}]
      [] params.shape = "dict" -> [args |-> << >>, kwargs |-> params.dict]
      [] OTHER -> [args |-> << >>, kwargs |-> {}]

\* Every exception of a handler turned into the internal error.
OutcomeResultAllInternal(outcome) ==
    CASE outcome.kind = "return" -> ValueResult(outcome.value)
      [] OTHER -> ErrorResult(InternalErrorObj)

\* An internal error that carries the text of the exception.
OutcomeResultLeaksDetail(outcome) ==
    CASE outcome.kind = "return" -> ValueResult(outcome.value)
      [] outcome.kind = "jsonrpc_exc" -> ErrorResult(outcome.error)
      [] OTHER -> ErrorResult([InternalErrorObj EXCEPT !.message = outcome.detail])

\* The result handle_request makes of what the handler did: the value, the
\* JsonRpcException itself, or a JsonRpcInternalError with a fixed message.
OutcomeResult(outcome) ==
    CASE outcome.kind = "return" -> ValueResult(outcome.value)
      [] outcome.kind = "jsonrpc_exc" -> ErrorResult(outcome.error)
      [] OTHER -> ErrorResult(InternalErrorObj)

\* A task started with nursery.start_soon(dispatch.handle_request, request,
\* result_send) that has not run yet.
NewTask(request) ==
    [request |-> request, pc |-> "start", invoked |-> << >>,
     outcome |-> NoOutcome, result |-> NoTaskResult]

\* The pair put on the result channel by task t.
Pair(t, request, result) == [task |-> t, request |-> request, result |-> result]

\* A lookup that falls back on some registered handler.
GetHandlerAny(method) ==
    IF method \in DOMAIN handlers THEN handlers[method]
    ELSE handlers[CHOOSE name \in DOMAIN handlers : TRUE]

\* Dispatch._get_handler: the handler registered under the method, or "" when
\* JsonRpcMethodNotFoundError is raised.
GetHandler(method) == IF method \in DOMAIN handlers THEN handlers[method] ELSE ""

\* handle_request up to the first await inside the handler: the handler is
\* looked up and called with the arguments built from request.params.  A task
\* started in a cancelled scope still runs up to its first checkpoint.
HandleInvoke(t) ==
    /\ tasks[t].pc = "start"
    /\ GetHandler(tasks[t].request.method) # ""
    /\ tasks' = [tasks EXCEPT
                   ![t].pc = "handler",
                   ![t].invoked = Append(@,
                       [handler |-> GetHandler(tasks[t].request.method),
                        call |-> BuildCall(tasks[t].request.params)])]
    /\ UNCHANGED <<peer_type, request_buffer_len, next_id, outbound_requests, callers, notifiers,
                   bg, inbound_closed, consumer, delivered, net_in, net_out,
                   recv_state, send_state, cancelled, frames_sent, faults, log,
                   call, handlers, results, responded, accepted,
                   serve_cancelled, dispatch_log,
                   replies, cvars>>

\* A handle_request that lets JsonRpcMethodNotFoundError go: the task ends and
\* nothing is sent.
HandleMissingSendsNothing(t) ==
    /\ tasks[t].pc = "start" /\ ~serve_cancelled
    /\ GetHandler(tasks[t].request.method) = ""
    /\ tasks' = [tasks EXCEPT ![t].pc = "done"]
    /\ UNCHANGED <<peer_type, request_buffer_len, next_id, outbound_requests, callers, notifiers,
                   bg, inbound_closed, consumer, delivered, net_in, net_out,
                   recv_state, send_state, cancelled, frames_sent, faults, log,
                   call, handlers, results, responded, accepted,
                   serve_cancelled, dispatch_log,
                   replies, cvars>>

\* handle_request for a method without handler: _get_handler raises
\* JsonRpcMethodNotFoundError, which becomes the result, and the pair is sent
\* to the result channel (10 slots in the example server, never full here).
HandleMissing(t) ==
    /\ tasks[t].pc = "start" /\ ~serve_cancelled
    /\ GetHandler(tasks[t].request.method) = ""
    /\ LET result == ErrorResult(MethodNotFoundObj(tasks[t].request.method)) IN
         /\ tasks' = [tasks EXCEPT ![t].pc = "done", ![t].result = result]
         /\ results' = Append(results, Pair(t, tasks[t].request, result))
    /\ UNCHANGED <<peer_type, request_buffer_len, next_id, outbound_requests, callers, notifiers,
                   bg, inbound_closed, consumer, delivered, net_in, net_out,
                   recv_state, send_state, cancelled, frames_sent, faults, log,
                   call, handlers, responded, accepted, serve_cancelled,
                   dispatch_log,
                   replies, cvars>>

\* The handler returns or raises: the except clauses make the result, an
\* exception that is no JsonRpcException is logged with the handler's name,
\* and `await result_channel.send((request, result))` sends the pair.
HandleFinish(t) ==
    /\ tasks[t].pc = "handler" /\ ~serve_cancelled
    /\ \E outcome \in HandlerOutcomes(tasks[t].invoked[1].handler) :
         /\ tasks' = [tasks EXCEPT ![t].pc = "done",
                                   ![t].outcome = outcome,
                                   ![t].result = OutcomeResult(outcome)]
         /\ results' = Append(results,
                              Pair(t, tasks[t].request, OutcomeResult(outcome)))
         /\ dispatch_log' = IF outcome.kind = "exception"
                            THEN dispatch_log \cup {FnName(tasks[t].invoked[1].handler)}
                            ELSE dispatch_log
    /\ UNCHANGED <<peer_type, request_buffer_len, next_id, outbound_requests, callers, notifiers,
                   bg, inbound_closed, consumer, delivered, net_in, net_out,
                   recv_state, send_state, cancelled, frames_sent, faults, log,
                   call, handlers, responded, accepted, serve_cancelled,
                   replies, cvars>>

\* trio.Cancelled is raised at the await inside the handler, or at the
\* checkpoint of result_channel.send before anything is sent.  It is a
\* BaseException: no except clause of handle_request catches it and the task
\* ends without sending a pair.
HandleCancelled(t) ==
    /\ serve_cancelled
    /\ \/ tasks[t].pc = "handler"
       \/ tasks[t].pc = "start" /\ GetHandler(tasks[t].request.method) = ""
    /\ tasks' = [tasks EXCEPT ![t].pc = "cancelled"]
    /\ UNCHANGED <<peer_type, request_buffer_len, next_id, outbound_requests, callers, notifiers,
                   bg, inbound_closed, consumer, delivered, net_in, net_out,
                   recv_state, send_state, cancelled, frames_sent, faults, log,
                   call, handlers, results, responded, accepted,
                   serve_cancelled, dispatch_log,
                   replies, cvars>>

\* ------------------------------------------------- the example server
\* The body of the responder's loop: respond_with_error(request,
\* result.get_error()) or respond_with_result(request, result), whatever the
\* request is.  The codec copies request.id into the response.
ResponseFor(pair) ==
    IF pair.result.is_error
    THEN ErrorResponse(pair.request.id, pair.result.error)
    ELSE ResultResponse(pair.request.id, pair.result.value)

\* The serving connection takes the next message the client sent.  A request
\* or a notification goes through its receive loop and iter_requests() to
\* connection_handler, which starts a task for it.  A response finds no entry
\* in the table of the serving connection, which sends an error response.
ServeAccept ==
    /\ ~serve_cancelled
    /\ accepted < Len(net_out) /\ accepted < MaxAccepted
    /\ accepted' = accepted + 1
    /\ LET message == net_out[accepted + 1] IN
         IF message.kind = "request"
         THEN /\ tasks' = Append(tasks, NewTask(message))
              /\ UNCHANGED net_in
         ELSE /\ net_in' = Append(net_in, <<BackgroundErrorResponse(NoMatchErrorObj)>>)
              /\ UNCHANGED tasks
    /\ UNCHANGED <<peer_type, request_buffer_len, next_id, outbound_requests, callers, notifiers,
                   bg, inbound_closed, consumer, delivered, net_out,
                   recv_state, send_state, cancelled, frames_sent, faults, log,
                   call, handlers, results, responded, serve_cancelled,
                   dispatch_log,
                   replies, cvars>>

\* The responder takes the next pair from the result channel and sends the
\* response to the client.
Respond ==
    /\ ~serve_cancelled
    /\ responded < Len(results)
    /\ responded' = responded + 1
    /\ net_in' = Append(net_in, <<ResponseFor(results[responded + 1])>>)
    /\ UNCHANGED <<peer_type, request_buffer_len, next_id, outbound_requests, callers, notifiers,
                   bg, inbound_closed, consumer, delivered, net_out,
                   recv_state, send_state, cancelled, frames_sent, faults, log,
                   call, handlers, tasks, results, accepted, serve_cancelled,
                   dispatch_log,
                   replies, cvars>>

\* nursery.cancel_scope.cancel() in connection_handler: the handler tasks and
\* the responder are cancelled.
ServeCancel ==
    /\ ~serve_cancelled
    /\ serve_cancelled' = TRUE
    /\ UNCHANGED <<peer_type, request_buffer_len, next_id, outbound_requests, callers, notifiers,
                   bg, inbound_closed, consumer, delivered, net_in, net_out,
                   recv_state, send_state, cancelled, frames_sent, faults, log,
                   call, handlers, tasks, results, responded, accepted,
                   dispatch_log,
                   replies, cvars>>

\* ----------------------------------- registration and connection contexts
\* The handler functions the tests register, and the methods they execute.
Functions == {"handler1", "increment", "increment_2", "object"}
ExecuteMethods == {"handler1", "increment"}

\* One use of the dispatcher and what came of it.  error is "" when nothing
\* was raised.
Event(op, t) ==
    [op |-> op, task |-> t, fn |-> "", method |-> "", id |-> ContextNotSet,
     context |-> "", x |-> 0, error |-> "", result |-> NoTaskResult]

\* A registry that keeps the first handler registered under a name.
HandlerTableFirstWins(table, fn) ==
    IF FnName(fn) = NoName \/ FnName(fn) \in DOMAIN table THEN table
    ELSE [name \in DOMAIN table \cup {FnName(fn)} |->
             IF name = FnName(fn) THEN fn ELSE table[name]]

\* A registry that files a function without __name__ under the empty name.
HandlerTableUnnamedToo(table, fn) ==
    [name \in DOMAIN table \cup {FnName(fn)} |->
        IF name = FnName(fn) THEN fn ELSE table[name]]

\* Dispatch.handler: self._handlers[fn.__name__] = fn, unless fn has no
\* __name__, when RuntimeError is raised before the assignment.
HandlerTable(table, fn) ==
    IF FnName(fn) = NoName THEN table
    ELSE [name \in DOMAIN table \cup {FnName(fn)} |->
             IF name = FnName(fn) THEN fn ELSE table[name]]

\* @dispatch.handler applied to fn.
Register(fn) ==
    /\ Len(events) < MaxOps
    /\ handlers' = HandlerTable(handlers, fn)
    /\ events' = Append(events,
                    [Event("register", 1) EXCEPT
                        !.fn = fn,
                        !.error = IF FnName(fn) = NoName THEN "unnamed" ELSE ""])
    /\ UNCHANGED <<peer_type, request_buffer_len, next_id, outbound_requests, callers, notifiers,
                   bg, inbound_closed, consumer, delivered, net_in, net_out,
                   recv_state, send_state, cancelled, frames_sent, faults, log,
                   call, tasks, results, responded, accepted, serve_cancelled,
                   dispatch_log, replies, contexts, connection_id,
                   connection_id_gen, heap, scope, spawned>>

\* A generator that hands out the same id again.
NextOfGenStuck(gen) == gen

\* next(connection_id_gen) on itertools.count(): the generator after it
\* handed out its current value.
NextOfGen(gen) == gen + 1

\* A check that lets every task enter.
AlreadySetNever(t) == FALSE

\* connection_context: `connection_id.get() is not ContextNotSet`
AlreadySet(t) == connection_id[t] # ContextNotSet

\* `async with dispatch.connection_context(context)` is entered by task t:
\* RuntimeError("The context has already been set.") when the task sees a
\* connection id, else the next id is taken, set in the ContextVar and the
\* context is stored under it.
EnterScope(t, context) ==
    /\ t \in spawned
    /\ Len(events) < MaxOps
    /\ IF AlreadySet(t)
       THEN /\ events' = Append(events,
                     [Event("enter", t) EXCEPT !.context = context,
                                               !.error = "already_set"])
            /\ UNCHANGED <<contexts, connection_id, connection_id_gen, scope>>
       ELSE /\ connection_id_gen' = NextOfGen(connection_id_gen)
            /\ connection_id' = [connection_id EXCEPT ![t] = connection_id_gen]
            /\ contexts' = [i \in DOMAIN contexts \cup {connection_id_gen} |->
                               IF i = connection_id_gen THEN context ELSE contexts[i]]
            /\ scope' = [scope EXCEPT ![t] =
                            [id |-> connection_id_gen, context |-> context,
                             old_value |-> connection_id[t]]]
            /\ events' = Append(events,
                     [Event("enter", t) EXCEPT !.context = context,
                                               !.id = connection_id_gen])
    /\ UNCHANGED <<peer_type, request_buffer_len, next_id, outbound_requests, callers, notifiers,
                   bg, inbound_closed, consumer, delivered, net_in, net_out,
                   recv_state, send_state, cancelled, frames_sent, faults, log,
                   call, handlers, tasks, results, responded, accepted,
                   serve_cancelled, dispatch_log, replies, heap, spawned>>

\* A scope left without `finally`: nothing is undone when the body raised.
CleanupOnReturnOnly(how) == how = "return"

\* connection_context: the `finally` clause runs however the body ended.
Cleanup(how) == TRUE

\* The body of the `async with` of task t ends, by returning or by raising:
\* connection_id.reset(token) and del contexts[id_].
ExitScope(t, how) ==
    /\ scope[t] # NoFrame
    /\ Len(events) < MaxOps
    /\ IF Cleanup(how)
       THEN /\ connection_id' = [connection_id EXCEPT ![t] = scope[t].old_value]
            /\ contexts' = [i \in DOMAIN contexts \ {scope[t].id} |-> contexts[i]]
       ELSE UNCHANGED <<connection_id, contexts>>
    /\ scope' = [scope EXCEPT ![t] = NoFrame]
    /\ events' = Append(events,
                    [Event("exit", t) EXCEPT
                        !.id = scope[t].id, !.context = scope[t].context,
                        !.error = IF how = "raise" THEN "body_raised" ELSE ""])
    /\ UNCHANGED <<peer_type, request_buffer_len, next_id, outbound_requests, callers, notifiers,
                   bg, inbound_closed, consumer, delivered, net_in, net_out,
                   recv_state, send_state, cancelled, frames_sent, faults, log,
                   call, handlers, tasks, results, responded, accepted,
                   serve_cancelled, dispatch_log, replies, connection_id_gen,
                   heap, spawned>>

\* nursery.start_soon by task p: the child starts with a copy of the
\* contextvars of p as they are now.
Spawn(p, c) ==
    /\ p \in spawned /\ c \notin spawned
    /\ spawned' = spawned \cup {c}
    /\ connection_id' = [connection_id EXCEPT ![c] = connection_id[p]]
    /\ UNCHANGED <<peer_type, request_buffer_len, next_id, outbound_requests, callers, notifiers,
                   bg, inbound_closed, consumer, delivered, net_in, net_out,
                   recv_state, send_state, cancelled, frames_sent, faults, log,
                   call, handlers, tasks, results, responded, accepted,
                   serve_cancelled, dispatch_log, replies, contexts,
                   connection_id_gen, heap, scope, events>>

\* A ctx that hands out a copy of the context object.
CtxCopy(t) ==
    IF connection_id[t] = ContextNotSet THEN [error |-> "not_set", context |-> ""]
    ELSE IF connection_id[t] \notin DOMAIN contexts
    THEN [error |-> "key_error", context |-> ""]
    ELSE [error |-> "",
          context |-> CHOOSE o \in Objects : o # contexts[connection_id[t]]]

\* Dispatch.ctx read by task t: RuntimeError when the ContextVar is not set,
\* else contexts[id_], which raises KeyError when the entry is gone.
Ctx(t) ==
    IF connection_id[t] = ContextNotSet THEN [error |-> "not_set", context |-> ""]
    ELSE IF connection_id[t] \notin DOMAIN contexts
    THEN [error |-> "key_error", context |-> ""]
    ELSE [error |-> "", context |-> contexts[connection_id[t]]]

\* The text of the exception a failed read of ctx raises.
CtxErrorText(error) ==
    IF error = "not_set"
    THEN "The .context property is only valid in a connection context."
    ELSE "KeyError"

\* `await dispatch.execute(JsonRpcRequest(method=method))` by task t, with
\* handlers that do not await: the handler is looked up and called, and the
\* result handle_request makes of its outcome is received.  `increment` does
\* `dispatch.ctx.x += 1; return {"x": dispatch.ctx.x}`.
Execute(t, method) ==
    /\ t \in spawned
    /\ Len(events) < MaxOps
    /\ LET fn == GetHandler(method)
           event == [Event("execute", t) EXCEPT !.method = method, !.fn = fn]
       IN
       IF fn = ""
       THEN /\ events' = Append(events,
                     [event EXCEPT !.error = "not_found",
                                   !.result = ErrorResult(MethodNotFoundObj(method))])
            /\ UNCHANGED <<heap, dispatch_log>>
       ELSE IF FnName(fn) = "increment"
       THEN IF Ctx(t).error # ""
            THEN /\ events' = Append(events,
                          [event EXCEPT
                              !.error = Ctx(t).error,
                              !.id = connection_id[t],
                              !.result = OutcomeResult(
                                            RaisesOther(CtxErrorText(Ctx(t).error)))])
                 /\ dispatch_log' = dispatch_log \cup {FnName(fn)}
                 /\ UNCHANGED heap
            ELSE /\ heap' = [heap EXCEPT ![Ctx(t).context] = @ + 1]
                 /\ events' = Append(events,
                          [event EXCEPT
                              !.id = connection_id[t],
                              !.context = Ctx(t).context,
                              !.x = heap[Ctx(t).context] + 1,
                              !.result = OutcomeResult(
                                            Returns(ToString(heap[Ctx(t).context] + 1)))])
                 /\ UNCHANGED dispatch_log
       ELSE /\ \E outcome \in HandlerOutcomes(fn) :
                 events' = Append(events, [event EXCEPT !.result = OutcomeResult(outcome)])
            /\ UNCHANGED <<heap, dispatch_log>>
    /\ UNCHANGED <<peer_type, request_buffer_len, next_id, outbound_requests, callers, notifiers,
                   bg, inbound_closed, consumer, delivered, net_in, net_out,
                   recv_state, send_state, cancelled, frames_sent, faults, log,
                   call, handlers, tasks, results, responded, accepted,
                   serve_cancelled, replies, contexts, connection_id,
                   connection_id_gen, scope, spawned>>

\* ------------------------------------------- respond_with_result / _error
\* What respond_with_result(request, result) or respond_with_error(request,
\* error) hands to the transport: the codec copies request.id.
ResponseBytes(request, kind) ==
    IF kind = "result"
    THEN ResultResponse(request.id, "v1")
    ELSE ErrorResponse(request.id, MethodNotFoundObj(request.method))

\* The application answers the next request it was given by iter_requests():
\* `await self._transport.send(bytes_to_send)` sends the response, or raises
\* and respond_with_* raises with it ("transport_closed" for TransportClosed,
\* "failed" for any other exception).
AppRespond(kind) ==
    /\ Len(replies) < Len(delivered)
    /\ LET request == delivered[Len(replies) + 1] IN
         CASE TransportSend = "sent" ->
                /\ net_out' = Append(net_out, ResponseBytes(request, kind))
                /\ replies' = Append(replies, [request |-> request, outcome |-> "returned"])
           [] TransportSend = "closed" ->
                /\ replies' = Append(replies, [request |-> request,
                                               outcome |-> "transport_closed"])
                /\ UNCHANGED net_out
           [] OTHER ->
                /\ replies' = Append(replies, [request |-> request, outcome |-> "failed"])
                /\ UNCHANGED net_out
    /\ UNCHANGED <<peer_type, request_buffer_len, next_id, outbound_requests, callers, notifiers,
                   bg, inbound_closed, consumer, delivered, net_in,
                   recv_state, send_state, cancelled, frames_sent, faults, log,
                   call, handlers, tasks, results, responded, accepted,
                   serve_cancelled, dispatch_log, cvars>>

\* ---------------------------------------------------------- specification
BgStep ==
    \/ BgStart
    \/ BgRecvMessages
    \/ BgRecvGarbage
    \/ BgRecvClosed
    \/ BgAcloseDone
    \/ BgEnqueue
    \/ BgHandoff
    \/ BgSendErrorUnmatched
    \/ BgSendErrorParse
    \/ BgCancelled
    \/ BgCancelledInHandler

CallerStep ==
    \/ \E c \in Callers : RequestStart(c)
    \/ \E c \in Callers : RequestSend(c)

Next ==
    \/ BgStep
    \/ CallerStep
    \/ \E c \in Callers : RequestCancelled(c)
    \/ \E n \in Notifiers : Notify(n)
    \/ ConsumerNext
    \/ ConsumerEnd
    \/ ConsumerCancelled
    \/ \E frame \in PeerFrames : PeerSend(frame)
    \/ PeerCloseSend
    \/ PeerCloseRecv
    \/ LocalCloseRecv
    \/ LocalCloseSend
    \/ Cancel

Spec == Init /\ [][Next]_vars

\* The trio scheduler runs every task that can run: a step of the background
\* task or of a request() caller that stays possible is eventually taken.
\* Nothing obliges the peer, the application or a deadline to act.
FairSpec == Spec /\ WF_vars(BgStep) /\ WF_vars(CallerStep)

\* A connection built on channels that may already be closed at either end,
\* whose task group is cancelled at some moment, as leaving the block of
\* open_jsonrpc_memory / serve_jsonrpc_memory does.
CancelInit ==
    /\ peer_type \in {CLIENT, SERVER}
    /\ call = [c \in Callers |-> DefaultCall]
    /\ DispatchInit
    /\ request_buffer_len = DefaultRequestBufferLen
    /\ next_id = 0
    /\ outbound_requests = [i \in {} |-> NoCaller]
    /\ callers = [c \in Callers |-> IdleCaller]
    /\ notifiers = [n \in Notifiers |-> "idle"]
    /\ bg = IdleBg
    /\ inbound_closed = FALSE
    /\ consumer = "idle"
    /\ delivered = << >>
    /\ net_in = << >>
    /\ net_out = << >>
    /\ recv_state \in {"open", "peer_closed", "local_closed"}
    /\ send_state \in {"open", "peer_closed", "local_closed"}
    /\ cancelled = FALSE
    /\ frames_sent = 0
    /\ faults = 0
    /\ log = {}

CancelNext ==
    \/ BgStep
    \/ CallerStep
    \/ \E c \in Callers : RequestCancelled(c)
    \/ ConsumerNext
    \/ ConsumerEnd
    \/ ConsumerCancelled
    \/ \E frame \in PeerFrames : PeerSend(frame)
    \/ Cancel

\* The trio scheduler runs every task that can run, and a task in a cancelled
\* scope is woken to receive trio.Cancelled: a step of the background task
\* that stays possible is eventually taken.
CancelSpec == CancelInit /\ [][CancelNext]_vars /\ WF_vars(BgStep)

\* A connection whose transport stays open and whose task group is not
\* cancelled, with an application that keeps asking for inbound requests;
\* single request() calls may still be given up by their own deadline.
LiveNext ==
    \/ BgStart
    \/ BgRecvMessages
    \/ BgRecvGarbage
    \/ BgEnqueue
    \/ BgHandoff
    \/ BgSendErrorUnmatched
    \/ BgSendErrorParse
    \/ CallerStep
    \/ \E c \in Callers : RequestCancelled(c)
    \/ ConsumerNext
    \/ \E frame \in PeerFrames : PeerSend(frame)

\* The trio scheduler runs every task that can run: the background task, the
\* request() callers and the consumer of iter_requests() each take a step
\* that stays possible.
LiveSpec ==
    /\ Init /\ [][LiveNext]_vars
    /\ WF_vars(BgStep) /\ WF_vars(CallerStep) /\ WF_vars(ConsumerNext)

\* A server built by jsonrpc_server(transport, nursery, request_buffer_len)
\* for some buffer length, with a peer that sends frames and an application
\* that iterates over the inbound requests when it pleases.
BufferInit ==
    /\ peer_type = SERVER
    /\ request_buffer_len \in 0..MaxBufferLen
    /\ call = [c \in Callers |-> DefaultCall]
    /\ DispatchInit
    /\ next_id = 0
    /\ outbound_requests = [i \in {} |-> NoCaller]
    /\ callers = [c \in Callers |-> IdleCaller]
    /\ notifiers = [n \in Notifiers |-> "idle"]
    /\ bg = IdleBg
    /\ inbound_closed = FALSE
    /\ consumer = "idle"
    /\ delivered = << >>
    /\ net_in = << >>
    /\ net_out = << >>
    /\ recv_state = "open"
    /\ send_state = "open"
    /\ cancelled = FALSE
    /\ frames_sent = 0
    /\ faults = 0
    /\ log = {}

BufferNext ==
    \/ BgStart
    \/ BgRecvMessages
    \/ BgRecvGarbage
    \/ BgEnqueue
    \/ BgSendErrorUnmatched
    \/ BgSendErrorParse
    \/ ConsumerNext
    \/ \E frame \in PeerFrames : PeerSend(frame)

BufferSpec == BufferInit /\ [][BufferNext]_vars

\* A client connection whose peer is the example server: the requests and
\* notifications of the client are dispatched to handler tasks and a responder
\* sends their results back.  Both transports stay open.
ServeInit ==
    /\ peer_type = CLIENT
    /\ call \in [Callers -> Calls]
    /\ DispatchInit
    /\ request_buffer_len = DefaultRequestBufferLen
    /\ next_id = 0
    /\ outbound_requests = [i \in {} |-> NoCaller]
    /\ callers = [c \in Callers |-> IdleCaller]
    /\ notifiers = [n \in Notifiers |-> "idle"]
    /\ bg = IdleBg
    /\ inbound_closed = FALSE
    /\ consumer = "idle"
    /\ delivered = << >>
    /\ net_in = << >>
    /\ net_out = << >>
    /\ recv_state = "open"
    /\ send_state = "open"
    /\ cancelled = FALSE
    /\ frames_sent = 0
    /\ faults = 0
    /\ log = {}

HandlerStep ==
    \/ \E t \in DOMAIN tasks : HandleInvoke(t)
    \/ \E t \in DOMAIN tasks : HandleMissing(t)
    \/ \E t \in DOMAIN tasks : HandleFinish(t)
    \/ \E t \in DOMAIN tasks : HandleCancelled(t)

ServeNext ==
    \/ CallerStep
    \/ \E n \in Notifiers : Notify(n)
    \/ BgStart
    \/ BgRecvMessages
    \/ BgHandoff
    \/ BgSendErrorUnmatched
    \/ ServeAccept
    \/ HandlerStep
    \/ Respond
    \/ ServeCancel

ServeSpec == ServeInit /\ [][ServeNext]_vars

\* The dispatcher used directly, as tests/test_dispatch.py does: handlers are
\* registered, tasks enter and leave connection contexts, start child tasks
\* and call execute().  No connection is involved.
ExecuteInit ==
    /\ ContextInit
    /\ request_buffer_len = DefaultRequestBufferLen
    /\ handlers = [name \in {} |-> ""]
    /\ call = [c \in Callers |-> DefaultCall]
    /\ tasks = << >>
    /\ results = << >>
    /\ responded = 0
    /\ accepted = 0
    /\ serve_cancelled = FALSE
    /\ dispatch_log = {}
    /\ replies = << >>
    /\ peer_type = SERVER
    /\ next_id = 0
    /\ outbound_requests = [i \in {} |-> NoCaller]
    /\ callers = [c \in Callers |-> IdleCaller]
    /\ notifiers = [n \in Notifiers |-> "idle"]
    /\ bg = IdleBg
    /\ inbound_closed = FALSE
    /\ consumer = "idle"
    /\ delivered = << >>
    /\ net_in = << >>
    /\ net_out = << >>
    /\ recv_state = "open"
    /\ send_state = "open"
    /\ cancelled = FALSE
    /\ frames_sent = 0
    /\ faults = 0
    /\ log = {}

ExecuteNext ==
    \/ \E fn \in Functions : Register(fn)
    \/ \E t \in Tasks, context \in Objects : EnterScope(t, context)
    \/ \E t \in Tasks, how \in {"return", "raise"} : ExitScope(t, how)
    \/ \E p, c \in Tasks : Spawn(p, c)
    \/ \E t \in Tasks, method \in ExecuteMethods : Execute(t, method)

ExecuteSpec == ExecuteInit /\ [][ExecuteNext]_vars

\* A connection that only serves: it makes no request() and no notify(), and
\* the application answers the requests iter_requests() gives it.
RespondNext ==
    \/ BgStart
    \/ BgRecvMessages
    \/ BgRecvGarbage
    \/ BgRecvClosed
    \/ BgAcloseDone
    \/ BgEnqueue
    \/ BgSendErrorUnmatched
    \/ BgSendErrorParse
    \/ BgCancelled
    \/ BgCancelledInHandler
    \/ ConsumerNext
    \/ ConsumerEnd
    \/ ConsumerCancelled
    \/ \E kind \in {"result", "error"} : AppRespond(kind)
    \/ \E frame \in PeerFrames : PeerSend(frame)
    \/ PeerCloseSend
    \/ PeerCloseRecv
    \/ LocalCloseRecv
    \/ LocalCloseSend
    \/ Cancel

RespondSpec == Init /\ [][RespondNext]_vars

\* ============================================ properties of the connection
Outstanding(c) == callers[c].pc \in {"send", "wait"}
Resumed(c) == callers[c].pc \in {"returned", "raised"}
BgExited == bg.pc \in {"done", "cancelled", "crashed"}

\* C1: a request() caller is resumed only with the response whose id is the
\* id allocated to that call, never with a response carrying another id.
C1_ResumedWithOwnResponse ==
    \A c \in Callers : Resumed(c) => callers[c].response.id = callers[c].id

\* Two calls were outstanding together and both have been resumed.
C1_Witness ==
    /\ \A c \in Callers : Resumed(c)
    /\ callers[1].id # callers[2].id

\* C2: once the receive loop has exited because the transport is closed for
\* receive, no request() call is left suspended waiting for its response (only
\* the receive loop ever resumes such a call, so one that is left then stays
\* suspended forever).
C2_ClosedFailsPending ==
    (bg.pc = "done" /\ inbound_closed) =>
        \A c \in Callers : callers[c].pc # "wait"

\* C3: once cancellation has stopped the receive loop, no request() call is
\* left suspended on an entry of the correlation table: every call that was
\* outstanding has been resolved.
C3_CancelResolvesEntries ==
    (BgExited /\ cancelled) => \A c \in Callers : callers[c].pc # "wait"

\* C4: the ids of the requests outstanding at the same time are pairwise
\* distinct, and no step replaces the table entry of an outstanding request
\* by another waiter: the entry stays as it is or is removed.
C4_DistinctOutstandingIds ==
    [][/\ \A c1, c2 \in Callers :
             (c1 # c2 /\ Outstanding(c1)' /\ Outstanding(c2)')
                 => callers'[c1].id # callers'[c2].id
       /\ \A i \in DOMAIN outbound_requests :
             (Outstanding(outbound_requests[i]) /\ i \in DOMAIN outbound_requests')
                 => outbound_requests'[i] = outbound_requests[i]]_vars

\* A second request is inserted while the first is still outstanding.
C4_Witness ==
    /\ Outstanding(1) /\ Outstanding(2)
    /\ DOMAIN outbound_requests = {callers[1].id, callers[2].id}

\* C5: handling a response that matches no pending request (logging it and
\* trying to send the error response) never stops the receive loop and never
\* drops a message: unless the task is cancelled, the loop is still running
\* afterwards and goes on with the remaining messages of the same frame.
C5_UnmatchedNotFatal ==
    [][(bg.pc = "err_unmatched" /\ bg' # bg /\ ~cancelled)
          => /\ bg'.running
             /\ ~BgExited'
             /\ bg'.messages = Tail(bg.messages)]_vars

\* C6: on an unmatched response a connection in the client role only logs:
\* the step of the receive loop that handles it hands nothing to the transport.
C6_ClientSendsNoError ==
    [][(bg.pc = "err_unmatched" /\ bg' # bg /\ is_client)
          => net_out' = net_out]_vars

\* C7: after a frame failed to parse, a server sends exactly one error
\* response with id null and code -32700 when the transport takes it and none
\* when the transport is closed for sending, a client sends nothing and only
\* logs, and unless the task is cancelled the receive loop is still running
\* and back at recv().
C7_ParseErrorHandled ==
    [][/\ ((bg.pc = "recv" /\ bg' # bg /\ ~cancelled /\ TransportRecv = "data"
               /\ Head(net_in) = Garbage /\ is_client)
            => (bg'.pc = "recv" /\ bg'.running /\ net_out' = net_out
                  /\ "client_exc" \in log'))
       /\ ((bg.pc = "err_parse" /\ bg' # bg /\ ~cancelled)
            => /\ is_server
               /\ bg'.pc = "recv" /\ bg'.running
               /\ \/ net_out' = Append(net_out, ErrorResponse(Null, ParseErrorObj))
                  \/ TransportSend # "sent" /\ net_out' = net_out)]_vars

\* C8: when the receive loop has exited, on a closed transport or on
\* cancellation, a consumer suspended in iter_requests() finds the inbound
\* queue closed, so that its iteration ends without raising.
C8_IterationEnds ==
    (BgExited /\ consumer = "receiving") => inbound_closed

\* C9: notify() hands exactly one message without id to the transport and
\* returns in the same step, waiting for nothing; when the transport refuses
\* the message nothing is sent.  In both cases the correlation table and the
\* id counter are left as they were.
C9_NotifyCreatesNoEntry ==
    [][\A n \in Notifiers :
          notifiers'[n] # notifiers[n]
             => /\ outbound_requests' = outbound_requests
                /\ next_id' = next_id
                /\ callers' = callers
                /\ IF notifiers'[n] = "returned"
                   THEN /\ Len(net_out') = Len(net_out) + 1
                        /\ net_out' = Append(net_out, net_out'[Len(net_out')])
                        /\ net_out'[Len(net_out')].kind = "request"
                        /\ net_out'[Len(net_out')].id = Null
                   ELSE net_out' = net_out]_vars

\* notify() has returned although the peer never sent anything, while a
\* request() of the same connection is still waiting for its response.
C9_Witness ==
    /\ \E n \in Notifiers : notifiers[n] = "returned"
    /\ frames_sent = 0
    /\ \E c \in Callers : callers[c].pc = "wait"

\* C10: a request() that was handed a success response carrying result v
\* has returned exactly v.
C10_RoundTrip ==
    \A c \in Callers :
        (Resumed(c) /\ callers[c].response.success)
            => /\ callers[c].pc = "returned"
               /\ callers[c].value = callers[c].response.result
               /\ callers[c].value \in Values

\* Both values the peer answers with have been returned by request() calls.
C10_Witness ==
    \A v \in Values : \E c \in Callers :
        callers[c].pc = "returned" /\ callers[c].value = v

\* C11: a request() that was handed an error response has not returned a
\* value: it has raised, and the error it raised carries the code, the message
\* and the data of the error object of that response.
C11_ErrorResponseRaises ==
    \A c \in Callers :
        (Resumed(c) /\ ~callers[c].response.success)
            => /\ callers[c].pc = "raised"
               /\ callers[c].value = NoResult
               /\ callers[c].error.code = callers[c].response.error.code
               /\ callers[c].error.message = callers[c].response.error.message
               /\ callers[c].error.data = callers[c].response.error.data

\* One request() has raised an error without data and another one an error
\* with data.
C11_Witness ==
    /\ callers[1].pc = "raised" /\ callers[1].error = PeerErrorObj
    /\ callers[2].pc = "raised" /\ callers[2].error = AppErrorObj

\* ============================================ properties of the dispatcher
\* The pairs task t has sent to the result channel.
PairsOf(t) == {i \in DOMAIN results : results[i].task = t}
Ended(t) == tasks[t].pc \in {"done", "cancelled"}
Registered(t) == tasks[t].request.method \in DOMAIN handlers

C13_MethodNotFound ==
    \A t \in DOMAIN tasks :
        ~Registered(t)
            => /\ tasks[t].invoked = << >>
               /\ tasks[t].pc \in {"start", "done", "cancelled"}
               /\ tasks[t].pc = "done"
                     => \E i \in DOMAIN results :
                           /\ results[i].task = t
                           /\ results[i].request = tasks[t].request
                           /\ results[i].result.is_error
                           /\ results[i].result.error.code = METHOD_NOT_FOUND

\* A request (with an id) for a method without handler has been dispatched.
C13_Witness ==
    \E t \in DOMAIN tasks :
        ~Registered(t) /\ tasks[t].pc = "done" /\ tasks[t].request.id # Null

\* C14: when a handler raised a JsonRpcException, the pair sent to the sink
\* holds that error with its code, message and data as raised, and the
\* request() of the remote caller that is resumed with the response raises
\* with that code and message.
C14_TypedErrorUnmodified ==
    \A t \in DOMAIN tasks :
        tasks[t].outcome.kind = "jsonrpc_exc"
            => /\ \E i \in DOMAIN results :
                     /\ results[i].task = t
                     /\ results[i].result.is_error
                     /\ results[i].result.error = tasks[t].outcome.error
               /\ \A c \in Callers :
                     (Resumed(c) /\ callers[c].id = tasks[t].request.id)
                        => /\ callers[c].pc = "raised"
                           /\ callers[c].error.code = tasks[t].outcome.error.code
                           /\ callers[c].error.message = tasks[t].outcome.error.message

\* A remote caller's request() has raised "Not authorized" (code 1000).
C14_Witness ==
    \E c \in Callers :
        /\ callers[c].pc = "raised"
        /\ callers[c].error.code = NOT_AUTHORIZED
        /\ callers[c].error.message = "Not authorized"

\* C15: when a handler raised an exception that is no JsonRpcException, the
\* pair sent to the sink holds an Internal error (code -32603) whose message
\* and data are the same whatever was raised, and the name of the handler has
\* been logged.
C15_OpaqueInternalError ==
    \A t \in DOMAIN tasks :
        tasks[t].outcome.kind = "exception"
            => /\ FnName(tasks[t].invoked[1].handler) \in dispatch_log
               /\ \E i \in DOMAIN results :
                     /\ results[i].task = t
                     /\ results[i].result.is_error
                     /\ results[i].result.error.code = INTERNAL_ERROR
                     /\ results[i].result.error.message # tasks[t].outcome.detail
                     /\ \A j \in DOMAIN results :
                           tasks[results[j].task].outcome.kind = "exception"
                              => results[j].result = results[i].result

\* Two handlers have raised different exceptions.
C15_Witness ==
    \E t1, t2 \in DOMAIN tasks :
        /\ tasks[t1].outcome.kind = "exception"
        /\ tasks[t2].outcome.kind = "exception"
        /\ tasks[t1].outcome.detail # tasks[t2].outcome.detail

\* C16: a call invokes at most one handler, once, and it is the handler
\* registered under request.method; the items of list params are its
\* positional arguments in order, the members of dict params its named
\* arguments, and without params it gets no argument.
C16_CallFromParams ==
    \A t \in DOMAIN tasks :
        /\ Len(tasks[t].invoked) <= 1
        /\ (Registered(t) /\ tasks[t].pc # "start") => Len(tasks[t].invoked) = 1
        /\ \A k \in DOMAIN tasks[t].invoked :
              LET inv == tasks[t].invoked[k]
                  params == tasks[t].request.params
              IN /\ Registered(t)
                 /\ inv.handler = handlers[tasks[t].request.method]
                 /\ params.shape = "list"
                       => inv.call.args = params.list /\ inv.call.kwargs = {}
                 /\ params.shape = "dict"
                       => inv.call.args = << >> /\ inv.call.kwargs = params.dict
                 /\ params.shape = "none"
                       => inv.call.args = << >> /\ inv.call.kwargs = {}

\* A handler has been called with positional arguments and another one with
\* named arguments.
C16_Witness ==
    \E t1, t2 \in DOMAIN tasks :
        /\ tasks[t1].invoked # << >> /\ tasks[t1].invoked[1].call.args = <<1, 2, 3>>
        /\ tasks[t2].invoked # << >>
        /\ tasks[t2].invoked[1].call.kwargs = {<<"foo", "bar">>}

\* C17: the responder sends nothing for a pair whose request is a
\* notification, and exactly one response, carrying the id of the request,
\* for any other pair; no task sends two pairs.
C17_NoResponseToNotification ==
    [][responded' # responded
          => LET pair == results[responded + 1] IN
             /\ Cardinality(PairsOf(pair.task)) = 1
             /\ IF pair.request.id = Null
                THEN net_in' = net_in
                ELSE /\ Len(net_in') = Len(net_in) + 1
                     /\ net_in'[Len(net_in')][1].id = pair.request.id]_vars

\* C18: each request() of a connection that has returned has returned the
\* value its own method's handler returns, also when the responses were sent
\* in another order than the requests.
C18_OwnResultAnyOrder ==
    \A c \in Callers :
        callers[c].pc = "returned"
            => /\ Returns(callers[c].value) \in HandlerOutcomes(call[c].method)
               /\ \E i \in DOMAIN results :
                     /\ results[i].request.id = callers[c].id
                     /\ results[i].request.method = call[c].method
                     /\ results[i].result = ValueResult(callers[c].value)

\* Two requests for different methods have both returned, and the handler of
\* the second request finished and was answered before the first.
C18_Witness ==
    /\ \A c \in Callers : callers[c].pc = "returned"
    /\ call[1].method # call[2].method
    /\ \E i, j \in DOMAIN results :
          i < j /\ results[i].request.id = 1 /\ results[j].request.id = 0

\* ========================================= properties of the receive loop
\* The requests and notifications among the messages of a frame, in order.
IsRequest(message) == message.kind = "request"
RequestsOf(messages) == SelectSeq(messages, IsRequest)
InLoop == bg.pc \in {"recv", "enqueue", "handoff", "err_unmatched", "err_parse"}

\* C19: the consumer of iter_requests() is given the requests and
\* notifications in the order in which they were received, across frames and
\* within a frame: unless the task is cancelled, every step of the receive
\* loop leaves what has been delivered followed by what of the current frame
\* is still to be delivered as it was, so that nothing is reordered,
\* duplicated or skipped.
C19_DeliveredInOrder ==
    [][/\ (bg.pc = "recv" /\ bg' # bg /\ ~cancelled /\ TransportRecv = "data"
              /\ Head(net_in) # Garbage)
            => delivered' \o RequestsOf(bg'.messages)
                  = delivered \o RequestsOf(Head(net_in))
       /\ (bg.pc \in {"enqueue", "handoff", "err_unmatched"} /\ bg' # bg
              /\ ~cancelled)
            => delivered' \o RequestsOf(bg'.messages)
                  = delivered \o RequestsOf(bg.messages)
       /\ bg' = bg => delivered' = delivered]_vars

\* C20: the receive loop stops only when recv() found the transport closed or
\* when the task was cancelled; no other failure stops it, and once stopped it
\* stays as it is.
C20_StopsOnlyOnCloseOrCancel ==
    [][/\ (InLoop /\ ~InLoop') => (cancelled \/ TransportRecv = "closed")
       /\ BgExited => bg' = bg]_vars

\* ===================================== properties of sending and receiving
\* C21: respond_with_result and respond_with_error hand exactly one response
\* with the id of the given request to the transport and return; when the
\* send side of the transport is unusable they send nothing and raise
\* TransportClosed to their caller.
C21_RespondOrTransportClosed ==
    [][replies' # replies
          => LET reply == replies'[Len(replies')] IN
             IF send_state = "open"
             THEN /\ reply.outcome = "returned"
                  /\ Len(net_out') = Len(net_out) + 1
                  /\ net_out'[Len(net_out')].kind = "response"
                  /\ net_out'[Len(net_out')].id = reply.request.id
             ELSE /\ reply.outcome = "transport_closed"
                  /\ net_out' = net_out]_vars

\* C22: when the receive loop tries to send an error response, for a parse
\* error or for an unmatched response, and the send side of the transport is
\* closed, it sends nothing, logs that it cannot send and keeps running.
C22_SendErrorClosedKeepsLoop ==
    [][(bg.pc \in {"err_parse", "err_unmatched"} /\ bg' # bg /\ ~cancelled
           /\ send_state # "open")
          => /\ "cannot_send" \in log'
             /\ net_out' = net_out
             /\ bg'.running /\ InLoop']_vars

\* ============================= properties of contexts and the registry
\* The events up to the n-th in which function fn was registered under name.
RegistrationsOf(name, n) ==
    {i \in 1..n : events[i].op = "register" /\ FnName(events[i].fn) = name}

\* The function the last of the first n events registered under name, or ""
\* when none did.
LastRegistration(name, n) ==
    IF RegistrationsOf(name, n) = {} THEN ""
    ELSE events[CHOOSE i \in RegistrationsOf(name, n) :
                   \A j \in RegistrationsOf(name, n) : j <= i].fn

\* The event is an execute() whose handler read and incremented the context.
IsIncrement(e) ==
    e.op = "execute" /\ e.error = "" /\ e.fn # "" /\ FnName(e.fn) = "increment"

\* The increments of context object o among the first n events.
IncrementsOn(o, n) ==
    {i \in 1..n : IsIncrement(events[i]) /\ events[i].context = o}

\* The last event is new in this step and is `op`.
Did(op) == events' # events /\ events'[Len(events')].op = op

\* C23: entering a connection context while one is active for the task
\* fails with 'context already set' and changes nothing: the task keeps its
\* context and the table of contexts is as before.
C23_NestedEnterFails ==
    [][\A t \in Tasks :
          (Did("enter") /\ events'[Len(events')].task = t
              /\ connection_id[t] \in DOMAIN contexts)
          => /\ events'[Len(events')].error = "already_set"
             /\ contexts' = contexts
             /\ connection_id' = connection_id
             /\ connection_id_gen' = connection_id_gen
             /\ scope' = scope]_vars

C23_Witness ==
    /\ Len(events) > 0
    /\ LET e == events[Len(events)] IN
         /\ e.op = "enter" /\ e.error = "already_set"
         /\ scope[e.task] # NoFrame
         /\ scope[e.task].context # e.context
         /\ contexts[connection_id[e.task]] = scope[e.task].context

C25_SharedContextObject ==
    /\ \A o \in Objects : heap[o] = Cardinality(IncrementsOn(o, Len(events)))
    /\ \A i \in DOMAIN events :
          IsIncrement(events[i])
          => /\ events[i].x = Cardinality(IncrementsOn(events[i].context, i))
             /\ \E j \in 1..i :
                   /\ events[j].op = "enter" /\ events[j].error = ""
                   /\ events[j].id = events[i].id
                   /\ events[j].context = events[i].context
                   /\ \A k \in j..i :
                         ~(events[k].op = "exit" /\ events[k].id = events[i].id)

C25_Witness ==
    \E i, j, k \in DOMAIN events :
       /\ i < j /\ j < k
       /\ IsIncrement(events[i]) /\ IsIncrement(events[j])
       /\ events[i].id = events[j].id
       /\ events[i].task # events[j].task
       /\ events[j].x = 2
       /\ events[k].op = "exit" /\ events[k].id = events[i].id
       /\ heap[events[k].context] = 2

\* C26: the table of contexts has an entry for an id exactly while the scope
\* that took the id is active; leaving the scope, by return or by an
\* exception, removes the entry and unsets the id of the task, which can
\* then enter a new scope.
C26_EntryWhileScopeActive ==
    /\ DOMAIN contexts = {scope[t].id : t \in {u \in Tasks : scope[u] # NoFrame}}
    /\ \A t \in Tasks :
          scope[t] # NoFrame
          => /\ connection_id[t] = scope[t].id
             /\ contexts[scope[t].id] = scope[t].context
    /\ \A i \in DOMAIN events :
          events[i].op = "exit"
          => /\ events[i].id \notin DOMAIN contexts
             /\ scope[events[i].task] = NoFrame
                   => connection_id[events[i].task] = ContextNotSet

C26_Witness ==
    \E i, j \in DOMAIN events :
       /\ i < j
       /\ events[i].op = "exit" /\ events[i].error = "body_raised"
       /\ events[j].op = "enter" /\ events[j].error = ""
       /\ events[j].task = events[i].task
       /\ events[j].id \in DOMAIN contexts

\* C27: the handler found and invoked for a method is the function of the
\* last registration under that name; a later registration under the same
\* name replaces it without an error and touches no other name.
C27_LastRegistrationWins ==
    /\ \A name \in ExecuteMethods :
          GetHandler(name) = LastRegistration(name, Len(events))
    /\ \A i \in DOMAIN events :
          /\ events[i].op = "execute"
                => events[i].fn = LastRegistration(events[i].method, i)
          /\ (events[i].op = "register" /\ FnName(events[i].fn) # NoName)
                => events[i].error = ""

C27_Witness ==
    /\ Cardinality(RegistrationsOf("increment", Len(events))) = 2
    /\ handlers["increment"] = "increment_2"
    /\ "handler1" \in DOMAIN handlers /\ handlers["handler1"] = "handler1"
    /\ events[Len(events)].op = "execute"
    /\ events[Len(events)].fn = "increment_2"

\* C28: registering a function that has no name raises an error at the
\* registration and leaves the registry as it was.
C28_UnnamedHandlerRejected ==
    [][(Did("register") /\ FnName(events'[Len(events')].fn) = NoName)
          => /\ events'[Len(events')].error = "unnamed"
             /\ handlers' = handlers]_vars

C28_Witness ==
    /\ Len(events) > 0
    /\ events[Len(events)].op = "register"
    /\ events[Len(events)].error = "unnamed"
    /\ DOMAIN handlers # {}

\* ============================================ properties of the transport
\* The send side can no longer accept data: the peer closed its receiving
\* end or the local sending end is closed.
SendUnusable == send_state # "open"

\* The receive side can no longer produce data: the local receiving end is
\* closed, or the peer closed its sending end and nothing is buffered.
RecvUnusable ==
    \/ recv_state = "local_closed"
    \/ recv_state = "peer_closed" /\ net_in = << >>

\* C29: on the in-memory transport a send() made while the send side cannot
\* accept data raises TransportClosed to the caller of notify() and sends
\* nothing, and a recv() made while the receive side cannot produce data
\* raises TransportClosed to the receive loop, which closes the inbound
\* queue; no other channel error comes out of the transport.
C29_MemoryTransportContract ==
    [][/\ \A n \in Notifiers :
            (notifiers'[n] # notifiers[n] /\ SendUnusable)
            => notifiers'[n] = "transport_closed" /\ net_out' = net_out
       /\ (bg.pc = "recv" /\ bg' # bg /\ ~cancelled /\ RecvUnusable)
            => bg'.pc = "aclose" /\ inbound_closed']_vars

\* ============================================= properties of cancellation
\* C30: once the task group of the connection is cancelled, the receive loop
\* stops at the suspension point it is in (or, not yet started, at its first
\* one): its next step ends it and hands nothing to the transport, and it
\* does end.
C30_CancelStopsLoop ==
    /\ [][(cancelled /\ bg' # bg /\ bg.pc # "init")
            => BgExited' /\ net_out' = net_out /\ log' = log]_vars
    /\ (cancelled ~> BgExited)

C30_Witness ==
    /\ cancelled /\ BgExited /\ bg.pc # "crashed"
    /\ bg.messages # << >>

\* ================================== properties of the correlation table
\* The request() call of caller c has ended without a response.
GaveUp(c) == callers[c].pc \in {"cancelled", "transport_closed", "failed"}

\* C34: a response for a request whose caller has given up does not block
\* the receive loop: while the loop holds such a response for hand-off and
\* is not cancelled, it has a step to take.
C34_AbandonedResponseNotBlocking ==
    (bg.pc = "handoff" /\ ~cancelled /\ GaveUp(bg.target)) => ENABLED BgStep

\* C35: every entry of the correlation table belongs to a request() call
\* that is still in progress; a call that ended without a response has left
\* no entry behind.
C35_EntriesOfCallsInProgress ==
    \A i \in DOMAIN outbound_requests :
       /\ Outstanding(outbound_requests[i])
       /\ callers[outbound_requests[i]].id = i

\* C36: on a client whose application has not asked for inbound requests, a
\* request or notification sent by the peer does not stop the receive loop:
\* while the loop holds one for the inbound queue and is not cancelled, it
\* has a step to take, so that the responses behind it reach their callers.
C36_UnconsumedRequestNotBlocking ==
    (is_client /\ consumer = "idle" /\ bg.pc = "enqueue" /\ ~cancelled)
        => ENABLED BgStep

\* A response with this id is in a frame the transport holds for recv().
ResponseInFlight(id) ==
    \E i \in DOMAIN net_in :
       /\ net_in[i] # Garbage
       /\ \E j \in DOMAIN net_in[i] :
             net_in[i][j].kind = "response" /\ net_in[i][j].id = id

\* C33: with the transport open, the connection not cancelled and inbound
\* requests being consumed, a request() that waits and whose response the
\* transport holds eventually returns or raises (or is given up by its own
\* caller), under fair scheduling.
C33_AnsweredRequestReturns ==
    \A c \in Callers :
       (callers[c].pc = "wait" /\ ResponseInFlight(callers[c].id))
           ~> (callers[c].pc \in {"returned", "raised", "cancelled"})

\* C32: the entry of a request() is in the table from before its bytes are
\* handed to the transport until the receive loop takes it out to hand over
\* the response, so a response with the id of a call that is waiting is never
\* handled as unmatched.
C32_EntryBeforeSend ==
    [][/\ \A c \in Callers :
            Outstanding(c)'
            => \/ /\ callers'[c].id \in DOMAIN outbound_requests'
                  /\ outbound_requests'[callers'[c].id] = c
               \/ bg'.target = c
       /\ \A k \in DOMAIN net_out' :
            (net_out'[k].kind = "request" /\ net_out'[k].id # Null)
            => \E c \in Callers :
                  callers'[c].id = net_out'[k].id /\ callers'[c].pc # "send"
       /\ (bg' # bg /\ bg'.pc = "err_unmatched")
            => \A c \in Callers :
                  callers[c].pc = "wait"
                      => Head(bg'.messages).id # callers[c].id]_vars

C32_Witness ==
    /\ bg.pc = "handoff" /\ ~cancelled
    /\ callers[bg.target].pc = "wait"
    /\ Head(bg.messages).id = callers[bg.target].id
    /\ \E k \in DOMAIN net_out :
          net_out[k].kind = "request" /\ net_out[k].id = callers[bg.target].id
    /\ \E c \in Callers : c # bg.target /\ callers[c].pc = "wait"

\* C37: a pending request is fulfilled at most once: the caller that was
\* resumed has no entry left, and a further response with its id is handled
\* as unmatched and handed to no caller.
C37_FulfilledAtMostOnce ==
    /\ \A c \in Callers :
          Resumed(c)
          => /\ callers[c].id \notin DOMAIN outbound_requests
             /\ ~(bg.pc = "handoff" /\ bg.target = c)
    /\ \A c \in Callers :
          (Resumed(c) /\ bg.pc \in {"handoff", "err_unmatched"}
              /\ Head(bg.messages).id = callers[c].id)
          => bg.pc = "err_unmatched" /\ bg.target = NoCaller
    /\ bg.pc = "handoff"
          => /\ Head(bg.messages).id = callers[bg.target].id
             /\ Head(bg.messages).id \notin DOMAIN outbound_requests

C37_Witness ==
    /\ bg.pc = "err_unmatched"
    /\ \E c \in Callers :
          /\ Resumed(c)
          /\ Head(bg.messages).id = callers[c].id
          /\ callers[c].response # Head(bg.messages)

\* ========================================= properties of the inbound queue
\* The requests the loop has taken off the transport and not yet delivered.
Undelivered == RequestsOf(bg.messages)

EntriesUpTo(n) ==
    {j \in 1..n : events[j].op = "enter" /\ events[j].error = ""}

\* The scope that task t entered at event j is still active after event i.
ActiveThrough(t, j, i) ==
    \A k \in j..i : ~(events[k].op = "exit" /\ events[k].task = t)

\* C38: scopes that are active together have distinct connection ids (no id
\* is handed out twice), and a handler run by a task inside the scope it
\* entered reads the context passed at that entry, whatever other scopes
\* are entered, left or used in between.
C38_ContextsIsolated ==
    /\ \A t, u \in Tasks :
          (t # u /\ scope[t] # NoFrame /\ scope[u] # NoFrame)
          => scope[t].id # scope[u].id
    /\ \A j, k \in EntriesUpTo(Len(events)) :
          j # k => events[j].id # events[k].id
    /\ \A i \in DOMAIN events :
          IsIncrement(events[i])
          => \A j \in EntriesUpTo(i) :
                (events[j].task = events[i].task
                    /\ ActiveThrough(events[i].task, j, i))
                => /\ events[i].id = events[j].id
                   /\ events[i].context = events[j].context

C38_Witness ==
    /\ \A t \in Tasks : scope[t] # NoFrame
    /\ scope[1].context # scope[2].context
    /\ \A o \in Objects : heap[o] = 1
    /\ \E i, j \in DOMAIN events :
          /\ IsIncrement(events[i]) /\ IsIncrement(events[j])
          /\ events[i].task = 1 /\ events[i].context = scope[1].context
          /\ events[j].task = 2 /\ events[j].context = scope[2].context

\* C39: a task that was started inside a connection context and reads ctx
\* in a handler after that context was left gets the 'only valid in a
\* connection context' error, and no context.
C39_StaleReadNotSet ==
    [][\A t \in Tasks :
          (Did("execute") /\ events'[Len(events')].task = t
              /\ GetHandler(events'[Len(events')].method) # ""
              /\ FnName(GetHandler(events'[Len(events')].method)) = "increment"
              /\ scope[t] = NoFrame
              /\ connection_id[t] # ContextNotSet
              /\ connection_id[t] \notin DOMAIN contexts)
          => /\ events'[Len(events')].error = "not_set"
             /\ events'[Len(events')].context = ""]_vars

\* C40: on a server built with request_buffer_len = n the receive loop can
\* put n requests on the inbound queue ahead of the consumer: with nothing
\* queued and n at least one, the enqueue goes through without a consumer
\* waiting.
C40_BufferLenIsCapacity ==
    (is_server /\ bg.pc = "enqueue" /\ ~cancelled /\ request_buffer_len > 0)
        => ENABLED BgEnqueue

====
